---- MODULE Spec2Model ----
(***************************************************************************)
(* Model of AudioProcessor (src/audio_processor.py): the segmented         *)
(* parallel transcription engine.  One main thread runs                    *)
(* process_all_files -> process_single_file -> process_audio_segments ->   *)
(* retry_failed_segments -> prepare_result_text; the threads of a          *)
(* ThreadPoolExecutor run recognize_audio; SIGINT runs handle_interrupt.   *)
(***************************************************************************)
EXTENDS Integers, Sequences, FiniteSets, TLC

\* ------------------------------------------------------------------ bounds
\* Largest number of segments split_audio_file returns for one file.
MaxSegments == 2
\* Number of .mp3 files in the folder.
MaxFiles == 2
\* Largest pool size given to __init__ (kwarg max_workers).
MaxWorkers == 2
\* Number of retry rounds given to __init__ (kwarg max_retries).
max_retries == 2

Files == 1..MaxFiles
Seg == 0..(MaxSegments - 1)

\* The sentinel appended for an index absent from segment_results
\* (the literal of lines 506 and 543).
UNRECOGNIZED == "[unrecognized]"
\* What recognize_audio returns as a non-empty text.
Texts == {"text"}
\* A recognizer may return any string, the sentinel's own text included.
AnyTexts == Texts \cup {"more text", UNRECOGNIZED}
\* A falsy return value of recognize_audio (None or "").
NoText == ""
\* The call raised: future.result re-raises it (TimeoutError or Exception).
Raised == "raised"
\* The call raised KeyboardInterrupt, which "except Exception" lets through
\* to the handlers of lines 324 and 452.
KeyboardInterrupt == "KeyboardInterrupt"
Outcomes == Texts \cup {NoText, Raised, KeyboardInterrupt}
\* the except clauses alone, without the test "if text:"
IsText_NotRaised(o) == o /= Raised /\ o /= KeyboardInterrupt

\* "if text:" alone, without the except clauses of lines 308-323 and 432-451
IsText_NotEmpty(o) == o /= NoText

\* "if text:" of lines 296 and 411, for the value future.result() gave
IsText(o) == o /= NoText /\ o /= Raised /\ o /= KeyboardInterrupt

\* ----------------------------------------------------------------- helpers
Range(s) == {s[k] : k \in 1..Len(s)}

RECURSIVE SeqOfSet(_)
\* list of the elements of a set of integers, ascending (range(...) order)
SeqOfSet(S) ==
  IF S = {} THEN << >>
  ELSE LET m == CHOOSE x \in S : \A y \in S : x <= y
       IN  <<m>> \o SeqOfSet(S \ {m})

\* {executor.submit(...): (i, f) for i, f in enumerate(segment_files)}
AllSegments(n) == SeqOfSet(0..(n - 1))

\* line 361 without the filter "if i not in segment_results"
FailedSegments_All(n, results) == SeqOfSet(0..(n - 1))

\* [(i, segment_files[i]) for i in range(len(segment_files)) if i not in segment_results]
FailedSegments(n, results) == SeqOfSet((0..(n - 1)) \ DOMAIN results)

\* the running calls of the pool
Running(fut) == {i \in Seg : fut[i] \in {"running", "hung"}}

\* ------------------------------------------------- prepare_result_text
\* all_text built without the else branch of line 505
AllText_NoSentinel(n, results) ==
  [k \in 1..Cardinality(DOMAIN results) |-> results[SeqOfSet(DOMAIN results)[k]]]

\* all_text built with "for i in reversed(range(len(segment_files)))"
AllText_Reversed(n, results) ==
  [k \in 1..n |-> IF (n - k) \in DOMAIN results THEN results[n - k] ELSE UNRECOGNIZED]

\* all_text of lines 486-510: one unit per index, text or sentinel
AllText(n, results) ==
  [k \in 1..n |-> IF (k - 1) \in DOMAIN results THEN results[k - 1] ELSE UNRECOGNIZED]

\* all_timestamps of lines 487-510: 30 seconds per segment
SegmentSeconds == 30
\* intervals counted from 1: 'start': (i + 1) * 30, 'end': (i + 2) * 30
AllTimestamps_FromOne(n) ==
  [k \in 1..n |-> [start |-> k * SegmentSeconds, end |-> (k + 1) * SegmentSeconds]]

AllTimestamps(n) ==
  [k \in 1..n |-> [start |-> (k - 1) * SegmentSeconds, end |-> k * SegmentSeconds]]

\* TextFormatter.format_segment_text(texts, timestamps, include_timestamps,
\* separate_segments=True): one unit per text, in order, with its interval
\* when timestamps are included.
format_segment_text(texts, timestamps, include) ==
  [k \in 1..Len(texts) |->
     [text |-> texts[k],
      stamp |-> IF include THEN <<timestamps[k].start, timestamps[k].end>> ELSE << >>]]

\* "\n\n".join([text for text in all_text if text and text != sentinel])
JoinUnformatted(texts) ==
  LET kept == SelectSeq(texts, LAMBDA t : t /= NoText /\ t /= UNRECOGNIZED)
  IN  [k \in 1..Len(kept) |-> [text |-> kept[k], stamp |-> << >>]]

\* lines 523-545: the transcript, as the sequence of its units
FullText(texts, n, fmt, stamps) ==
  IF fmt
  THEN format_segment_text(texts, IF stamps THEN AllTimestamps(n) ELSE << >>, stamps)
  ELSE JoinUnformatted(texts)

prepare_result_text(n, results, fmt, stamps) ==
  FullText(AllText(n, results), n, fmt, stamps)

\* ------------------------------------------------------------------- state
VARIABLES
  pc,                   \* position of the main thread
  interrupt_received,   \* self.interrupt_received
  format_text,          \* self.format_text
  include_timestamps,   \* self.include_timestamps
  max_workers,          \* self.max_workers
  mp3_folder,           \* whether the attribute self.mp3_folder exists
  processed_files,      \* self.processed_files: file -> record
  ledger_file,          \* processed_audio_files.json as last saved
  outputs,              \* the files whose transcript was written
  unprocessed_files,    \* list built by process_all_files
  file_idx,             \* position of the file loop (1-based)
  processed_files_count,
  segment_files,        \* number of segments of the current file
  segment_results,      \* Dict[int, str] of the current file
  result_order,         \* the keys of segment_results in insertion order
  future,               \* state of the future of each segment
  outcome,              \* result held by a finished future
  work_queue,           \* the executor's queue of work items not started
  yielded,              \* futures as_completed has already yielded
  failed_segments,      \* retry_failed_segments: failed_segments
  still_failed,         \* retry_failed_segments: still_failed
  retry_round,          \* retry_failed_segments: retry_round
  all_text,             \* prepare_result_text: all_text
  full_text,            \* prepare_result_text: the returned text
  returned,             \* process_single_file's return value per file
  ledger_writes,        \* times lines 614-621 ran for each file
  \* history of the current file, for the properties
  submitted_log,        \* the set of segments submitted by each pool
  write_count,          \* number of assignments segment_results[i] = text
  done_at_interrupt,    \* calls finished with text when the flag was set
  retry_called,         \* retry_failed_segments was invoked
  flag_at_return        \* the flag when process_audio_segments returned

cfgvars == <<format_text, include_timestamps, max_workers, mp3_folder>>
filevars == <<processed_files, ledger_file, outputs, unprocessed_files, file_idx,
              processed_files_count, returned, ledger_writes>>
poolvars == <<future, outcome, work_queue, yielded>>
retryvars == <<failed_segments, still_failed, retry_round>>
textvars == <<all_text, full_text>>
histvars == <<submitted_log, write_count, done_at_interrupt, retry_called,
              flag_at_return>>
vars == <<pc, interrupt_received, cfgvars, filevars, segment_files, segment_results,
          result_order, poolvars, retryvars, textvars, histvars>>

NoFutures == [i \in Seg |-> "none"]
NoOutcomes == [i \in Seg |-> NoText]
NoWrites == [i \in Seg |-> 0]
EmptyMap == [i \in {} |-> NoText]
\* an entry left in the ledger by an earlier run
PriorRecord == [interrupted |-> FALSE]
\* the entries an earlier run can have left (line 617)
Records == {[interrupted |-> b] : b \in BOOLEAN}

\* the locals of process_single_file and the history, before any file
InitLocals ==
  /\ segment_files = 0
  /\ segment_results = EmptyMap
  /\ result_order = << >>
  /\ future = NoFutures
  /\ outcome = NoOutcomes
  /\ work_queue = << >>
  /\ yielded = {}
  /\ failed_segments = << >>
  /\ still_failed = << >>
  /\ retry_round = 0
  /\ all_text = << >>
  /\ full_text = << >>
  /\ submitted_log = << >>
  /\ write_count = NoWrites
  /\ done_at_interrupt = {}
  /\ retry_called = FALSE
  /\ flag_at_return = FALSE

\* state of __init__ (lines 34-72) with `prior` the ledger load_json_file
\* read
Constructed(prior) ==
  /\ pc = "start"
  /\ interrupt_received = FALSE
  /\ format_text \in BOOLEAN
  /\ include_timestamps \in BOOLEAN
  /\ max_workers \in 1..MaxWorkers
  /\ mp3_folder \in BOOLEAN
  /\ processed_files = prior
  /\ ledger_file = prior
  /\ outputs = {}
  /\ unprocessed_files = << >>
  /\ file_idx = 1
  /\ processed_files_count = 0
  /\ returned = EmptyMap
  /\ ledger_writes = [f \in Files |-> 0]
  /\ InitLocals

\* a run over a folder of MaxFiles files, any of them already recorded
Init == \E done \in SUBSET Files : \E prior \in [done -> Records] : Constructed(prior)

\* a run that finds one file to process: the others are recorded
OneFileInit == Constructed([f \in Files \ {1} |-> PriorRecord])
\* the file process_single_file is working on
CurFile == unprocessed_files[file_idx]

\* d[k] = v of a Python dict
Put(d, k, v) == [x \in DOMAIN d \cup {k} |-> IF x = k THEN v ELSE d[x]]

\* the locals of process_single_file, as they are before a file starts
ResetLocals ==
  /\ segment_files' = 0
  /\ segment_results' = EmptyMap
  /\ result_order' = << >>
  /\ future' = NoFutures
  /\ outcome' = NoOutcomes
  /\ work_queue' = << >>
  /\ yielded' = {}
  /\ failed_segments' = << >>
  /\ still_failed' = << >>
  /\ retry_round' = 0
  /\ all_text' = << >>
  /\ full_text' = << >>
  /\ submitted_log' = << >>
  /\ write_count' = NoWrites
  /\ done_at_interrupt' = {}
  /\ retry_called' = FALSE
  /\ flag_at_return' = FALSE

\* ------------------------------------------------------ the interrupt
\* the main thread is inside process_audio_segments
InDispatch == pc \in {"dispatch_submit", "dispatch_collect", "dispatch_exit"}

\* a handler that flips the flag instead of setting it
handle_interrupt_Toggle ==
  /\ pc \notin {"start", "done"}
  /\ interrupt_received' = ~interrupt_received
  /\ UNCHANGED <<pc, cfgvars, filevars, segment_files, segment_results, result_order, poolvars,
                 retryvars, textvars, histvars>>

\* handle_interrupt, the SIGINT handler process_all_files installs (line 652)
\* and removes (line 727): it only sets the flag
handle_interrupt ==
  /\ pc \notin {"start", "done"}
  /\ ~interrupt_received
  /\ interrupt_received' = TRUE
  /\ done_at_interrupt' =
       IF InDispatch
       THEN {i \in Seg : future[i] = "done" /\ IsText(outcome[i])}
       ELSE done_at_interrupt
  /\ UNCHANGED <<pc, cfgvars, filevars, segment_files, segment_results, result_order, poolvars,
                 retryvars, textvars, submitted_log, write_count, retry_called,
                 flag_at_return>>

\* ------------------------------------------------- the pool's threads
\* a pool that starts a thread for every work item
HasIdleWorker_Always(fut, limit) == TRUE

\* ThreadPoolExecutor(max_workers=self.max_workers): the pool has at most
\* max_workers threads, each running one call at a time
HasIdleWorker(fut, limit) == Cardinality(Running(fut)) < limit

\* a worker thread takes the oldest work item and calls recognize_audio
WorkerStart ==
  /\ work_queue /= << >>
  /\ HasIdleWorker(future, max_workers)
  /\ future' = [future EXCEPT ![Head(work_queue)] = "running"]
  /\ work_queue' = Tail(work_queue)
  /\ UNCHANGED <<pc, interrupt_received, cfgvars, filevars, segment_files,
                 segment_results, result_order, outcome, yielded, retryvars, textvars, histvars>>

\* recognize_audio returns a text, returns nothing, or raises
WorkerFinish(i, o) ==
  /\ future[i] = "running"
  /\ future' = [future EXCEPT ![i] = "done"]
  /\ outcome' = [outcome EXCEPT ![i] = o]
  /\ UNCHANGED <<pc, interrupt_received, cfgvars, filevars, segment_files,
                 segment_results, result_order, work_queue, yielded, retryvars, textvars, histvars>>

\* recognize_audio never returns (the recognition capability hangs)
WorkerHang(i) ==
  /\ future[i] = "running"
  /\ future' = [future EXCEPT ![i] = "hung"]
  /\ UNCHANGED <<pc, interrupt_received, cfgvars, filevars, segment_files,
                 segment_results, result_order, outcome, work_queue, yielded, retryvars, textvars,
                 histvars>>

\* executor.shutdown(wait=False, cancel_futures=True): the work items not
\* started are cancelled, the running calls are left alone
CancelFutures(fut) == [i \in Seg |-> IF fut[i] = "queued" THEN "cancelled" ELSE fut[i]]

\* futures of a new pool, one per submitted segment
Submitted(segs) == [i \in Seg |-> IF i \in Range(segs) THEN "queued" ELSE "none"]

\* ------------------------------------------------- process_all_files
\* a list that takes the files recorded as interrupted again
Unprocessed_RetryInterrupted(recorded) ==
  SeqOfSet({f \in Files : f \notin DOMAIN recorded \/ recorded[f].interrupted})

\* lines 666-670: the files whose path is not a key of processed_files
Unprocessed(recorded) == SeqOfSet(Files \ DOMAIN recorded)

\* lines 650-680: install the handler, list the .mp3 files of
\* self.mp3_folder (an attribute __init__ never sets: AttributeError when no
\* caller has set it, and the finally clause ends the run), keep those whose
\* path is not a key of processed_files
ListFiles ==
  /\ pc = "start"
  /\ IF mp3_folder
     THEN /\ unprocessed_files' = Unprocessed(processed_files)
          /\ pc' = "file_loop"
     ELSE /\ unprocessed_files' = unprocessed_files
          /\ pc' = "done"
  /\ UNCHANGED <<interrupt_received, cfgvars, processed_files, ledger_file, outputs,
                 file_idx, processed_files_count, returned, ledger_writes,
                 segment_files, segment_results, result_order, poolvars, retryvars, textvars,
                 histvars>>

\* the file loop without the tests of lines 684 and 709
StopsFileLoop_Never(flag) == FALSE

\* lines 684 and 709: the file loop is left when an interrupt was received
StopsFileLoop(flag) == flag

\* lines 683-698: the head of the file loop
FileLoop ==
  /\ pc = "file_loop"
  /\ pc' = IF file_idx > Len(unprocessed_files) \/ StopsFileLoop(interrupt_received)
           THEN "finish" ELSE "split"
  /\ UNCHANGED <<interrupt_received, cfgvars, filevars, segment_files,
                 segment_results, result_order, poolvars, retryvars, textvars, histvars>>

\* lines 699-710: count the file, leave the loop on an interrupt
AfterFile ==
  /\ pc = "after_file"
  /\ processed_files_count' =
       IF returned[CurFile] THEN processed_files_count + 1 ELSE processed_files_count
  /\ IF StopsFileLoop(interrupt_received)
     THEN pc' = "finish" /\ file_idx' = file_idx
     ELSE pc' = "file_loop" /\ file_idx' = file_idx + 1
  /\ ResetLocals
  /\ UNCHANGED <<interrupt_received, cfgvars, processed_files, ledger_file, outputs,
                 unprocessed_files, returned, ledger_writes>>

\* lines 712-730: statistics, then the finally clause restores the handler
Finish ==
  /\ pc = "finish"
  /\ pc' = "done"
  /\ UNCHANGED <<interrupt_received, cfgvars, filevars, segment_files,
                 segment_results, result_order, poolvars, retryvars, textvars, histvars>>

\* ----------------------------------------------- process_single_file
\* process_single_file without the test of line 576
SplitFailed_Never(n) == FALSE

\* line 576: "if not segment_files"
SplitFailed(n) == n = 0

\* lines 572-579: split_audio_file returns the segments, or [] when the
\* file cannot be split, and then the file is skipped
SplitAudioFile(n) ==
  /\ pc = "split"
  /\ segment_files' = n
  /\ IF SplitFailed(n)
     THEN /\ returned' = Put(returned, CurFile, FALSE)
          /\ pc' = "after_file"
     ELSE /\ returned' = returned
          /\ pc' = "dispatch_submit"
  /\ UNCHANGED <<interrupt_received, cfgvars, processed_files, ledger_file, outputs,
                 unprocessed_files, file_idx, processed_files_count, ledger_writes,
                 segment_results, result_order, poolvars, retryvars, textvars, histvars>>

\* line 586 without its test of the flag
SkipsRetry_Never(flag) == FALSE

\* line 586: the retry is skipped when an interrupt was received
SkipsRetry(flag) == flag

\* lines 585-592: retry only when no interrupt was received
AfterDispatch ==
  /\ pc = "after_dispatch"
  /\ IF SkipsRetry(interrupt_received)
     THEN pc' = "assemble" /\ retry_called' = retry_called
     ELSE pc' = "retry_entry" /\ retry_called' = TRUE
  /\ UNCHANGED <<interrupt_received, cfgvars, filevars, segment_files,
                 segment_results, result_order, poolvars, retryvars, textvars, submitted_log,
                 write_count, done_at_interrupt, flag_at_return>>

\* a prepare_result_text that stores the sentinel in the dict it was given
Assemble_FillsMap ==
  /\ pc = "assemble"
  /\ all_text' = AllText(segment_files, segment_results)
  /\ full_text' = prepare_result_text(segment_files, segment_results, format_text,
                                      include_timestamps)
  /\ segment_results' = [i \in 0..(segment_files - 1) |->
                           IF i \in DOMAIN segment_results
                           THEN segment_results[i] ELSE UNRECOGNIZED]
  /\ pc' = "write"
  /\ UNCHANGED <<interrupt_received, cfgvars, filevars, segment_files, result_order,
                 poolvars, retryvars, histvars>>

\* lines 594-596
Assemble ==
  /\ pc = "assemble"
  /\ all_text' = AllText(segment_files, segment_results)
  /\ full_text' = prepare_result_text(segment_files, segment_results, format_text,
                                      include_timestamps)
  /\ pc' = "write"
  /\ UNCHANGED <<interrupt_received, cfgvars, filevars, segment_files,
                 segment_results, result_order, poolvars, retryvars, histvars>>

\* lines 598-601: open and write the transcript; an OSError is caught at
\* line 633 and the file returns False
WriteTranscript(ok) ==
  /\ pc = "write"
  /\ IF ok
     THEN /\ outputs' = outputs \cup {CurFile}
          /\ returned' = returned
          /\ pc' = "ledger"
     ELSE /\ outputs' = outputs
          /\ returned' = Put(returned, CurFile, FALSE)
          /\ pc' = "after_file"
  /\ UNCHANGED <<interrupt_received, cfgvars, processed_files, ledger_file,
                 unprocessed_files, file_idx, processed_files_count, ledger_writes,
                 segment_files, segment_results, result_order, poolvars, retryvars, textvars,
                 histvars>>

\* the record of lines 614-620 (the fields no decision reads are left out)
FileRecord == [interrupted |-> interrupt_received]

\* a return value that asks for every segment to be resolved
ReturnValue_AllResolved(saved, n, results) == saved /\ Cardinality(DOMAIN results) = n

\* line 631: return True once the ledger is saved, whatever the number of
\* resolved segments (line 638: return False when the save raised)
ReturnValue(saved, n, results) == saved

\* process_single_file returning True without lines 614-621
UpdateLedger_Skipped(ok) ==
  /\ pc = "ledger"
  /\ returned' = Put(returned, CurFile, TRUE)
  /\ pc' = "after_file"
  /\ UNCHANGED <<interrupt_received, cfgvars, processed_files, ledger_file, outputs,
                 unprocessed_files, file_idx, processed_files_count, ledger_writes,
                 segment_files, segment_results, result_order, poolvars, retryvars, textvars,
                 histvars>>

\* lines 613-631: record the file, save the ledger, return True; when
\* save_json_file raises, line 633 catches it and the file returns False
UpdateLedger(ok) ==
  /\ pc = "ledger"
  /\ processed_files' = Put(processed_files, CurFile, FileRecord)
  /\ ledger_file' = IF ok THEN processed_files' ELSE ledger_file
  /\ ledger_writes' = [ledger_writes EXCEPT ![CurFile] = @ + 1]
  /\ returned' = Put(returned, CurFile, ReturnValue(ok, segment_files, segment_results))
  /\ pc' = "after_file"
  /\ UNCHANGED <<interrupt_received, cfgvars, outputs, unprocessed_files, file_idx,
                 processed_files_count, segment_files, segment_results, result_order, poolvars,
                 retryvars, textvars, histvars>>

\* -------------------------------------------- process_audio_segments
\* lines 260-280: a new result dict, a new pool, one future per segment
DispatchSubmit ==
  /\ pc = "dispatch_submit"
  /\ segment_results' = EmptyMap
  /\ result_order' = << >>
  /\ future' = Submitted(AllSegments(segment_files))
  /\ outcome' = NoOutcomes
  /\ work_queue' = AllSegments(segment_files)
  /\ yielded' = {}
  /\ submitted_log' = <<Range(AllSegments(segment_files))>>
  /\ pc' = "dispatch_collect"
  /\ UNCHANGED <<interrupt_received, cfgvars, filevars, segment_files, retryvars,
                 textvars, write_count, done_at_interrupt, retry_called,
                 flag_at_return>>

\* a text stored under the count of the calls completed with a text so far
StoreResult_ByCount(results, i, o) ==
  IF IsText(o) THEN Put(results, Cardinality(DOMAIN results), o) ELSE results

\* lines 296-297 and 411-412: a non-empty text is stored under its index
StoreResult(results, i, o) == IF IsText(o) THEN Put(results, i, o) ELSE results

\* a dict keeps its keys in insertion order: a new key goes last
StoreOrder(order, i, o) ==
  IF IsText(o) /\ i \notin Range(order) THEN Append(order, i) ELSE order

\* the futures as_completed can yield next: finished and not yet yielded
Completed == {i \in Seg : future[i] = "done" /\ i \notin yielded}

\* lines 285-327: as_completed yields a finished future; on an interrupt the
\* pool is shut down without waiting and the loop is left, otherwise the
\* result is taken (a timeout or an exception only counts the segment); a
\* KeyboardInterrupt re-raised by future.result() is caught at line 324,
\* which shuts the pool down and sets the flag
DispatchCollect(i) ==
  /\ pc = "dispatch_collect"
  /\ i \in Completed
  /\ IF interrupt_received
     THEN /\ future' = CancelFutures(future)
          /\ work_queue' = << >>
          /\ pc' = "dispatch_exit"
          /\ UNCHANGED <<interrupt_received, yielded, segment_results, result_order, write_count,
                         done_at_interrupt>>
     ELSE IF outcome[i] = KeyboardInterrupt
     THEN /\ future' = CancelFutures(future)
          /\ work_queue' = << >>
          /\ interrupt_received' = TRUE
          /\ done_at_interrupt' = {j \in Seg : future[j] = "done" /\ IsText(outcome[j])}
          /\ pc' = "dispatch_exit"
          /\ UNCHANGED <<yielded, segment_results, result_order, write_count>>
     ELSE /\ yielded' = yielded \cup {i}
          /\ segment_results' = StoreResult(segment_results, i, outcome[i])
          /\ result_order' = StoreOrder(result_order, i, outcome[i])
          /\ write_count' = IF IsText(outcome[i])
                            THEN [write_count EXCEPT ![i] = @ + 1] ELSE write_count
          /\ pc' = "dispatch_collect"
          /\ UNCHANGED <<interrupt_received, future, work_queue, done_at_interrupt>>
  /\ UNCHANGED <<cfgvars, filevars, segment_files, outcome, retryvars, textvars,
                 submitted_log, retry_called, flag_at_return>>

\* as_completed is exhausted once every future was yielded
DispatchLoopEnd ==
  /\ pc = "dispatch_collect"
  /\ \A i \in Seg : future[i] /= "none" => i \in yielded
  /\ pc' = "dispatch_exit"
  /\ UNCHANGED <<interrupt_received, cfgvars, filevars, segment_files,
                 segment_results, result_order, poolvars, retryvars, textvars, histvars>>

\* a pool left without joining its threads
PoolJoined_NoWait == TRUE

\* the end of the with block (line 274): ThreadPoolExecutor.__exit__ calls
\* shutdown(wait=True), which joins every worker thread
PoolJoined == Running(future) = {} /\ work_queue = << >>

\* the futures of a pool that is left: the dict is dropped, a call still
\* executing goes on in its thread
LeftRunning(fut) == [i \in Seg |-> IF i \in Running(fut) THEN fut[i] ELSE "none"]

\* lines 328-338: leave the with block and return segment_results
DispatchExit ==
  /\ pc = "dispatch_exit"
  /\ PoolJoined
  /\ pc' = "after_dispatch"
  /\ future' = LeftRunning(future)
  /\ outcome' = NoOutcomes
  /\ yielded' = {}
  /\ flag_at_return' = interrupt_received
  /\ UNCHANGED <<interrupt_received, cfgvars, filevars, segment_files,
                 segment_results, result_order, work_queue, retryvars, textvars, submitted_log,
                 write_count, done_at_interrupt, retry_called>>

\* --------------------------------------------- retry_failed_segments
\* lines 353-358 without the early return on the flag
ReturnsAtOnce_NoFlag(flag, n, results) == n - Cardinality(DOMAIN results) = 0

\* lines 353-358: the two early returns of retry_failed_segments
ReturnsAtOnce(flag, n, results) == flag \/ n - Cardinality(DOMAIN results) = 0

\* lines 353-362: nothing to do after an interrupt or without a failure
RetryEntry ==
  /\ pc = "retry_entry"
  /\ IF ReturnsAtOnce(interrupt_received, segment_files, segment_results)
     THEN /\ pc' = "assemble"
          /\ UNCHANGED retryvars
     ELSE /\ failed_segments' = FailedSegments(segment_files, segment_results)
          /\ retry_round' = 1
          /\ still_failed' = still_failed
          /\ pc' = "retry_round"
  /\ UNCHANGED <<interrupt_received, cfgvars, filevars, segment_files,
                 segment_results, result_order, poolvars, textvars, histvars>>

\* lines 364-366 with range(1, max_retries + 2)
RoundLoopEnds_OneMore(round, failed, flag) ==
  round > max_retries + 1 \/ failed = << >> \/ flag

\* lines 364-366 with range(1, max_retries)
RoundLoopEnds_OneFewer(round, failed, flag) ==
  round > max_retries - 1 \/ failed = << >> \/ flag

\* lines 364-366: range(1, max_retries + 1) is exhausted, or the break
RoundLoopEnds(round, failed, flag) ==
  round > max_retries \/ failed = << >> \/ flag

\* lines 364-381: the head of the round loop
RetryRound ==
  /\ pc = "retry_round"
  /\ IF RoundLoopEnds(retry_round, failed_segments, interrupt_received)
     THEN pc' = "assemble" /\ still_failed' = still_failed
     ELSE pc' = "retry_submit" /\ still_failed' = << >>
  /\ UNCHANGED <<interrupt_received, cfgvars, filevars, segment_files,
                 segment_results, result_order, poolvars, failed_segments, retry_round, textvars,
                 histvars>>

\* lines 384-390: a new pool, one future per failed segment
RetrySubmit ==
  /\ pc = "retry_submit"
  /\ future' = Submitted(failed_segments)
  /\ outcome' = NoOutcomes
  /\ work_queue' = failed_segments
  /\ yielded' = {}
  /\ submitted_log' = Append(submitted_log, Range(failed_segments))
  /\ pc' = "retry_collect"
  /\ UNCHANGED <<interrupt_received, cfgvars, filevars, segment_files,
                 segment_results, result_order, retryvars, textvars, write_count,
                 done_at_interrupt, retry_called, flag_at_return>>

\* lines 393-455 (lines 395-399 repeat lines 388-394 and are read as one
\* loop): as in the first dispatch, and a segment without text is kept in
\* still_failed
RetryCollect(i) ==
  /\ pc = "retry_collect"
  /\ i \in Completed
  /\ IF interrupt_received
     THEN /\ future' = CancelFutures(future)
          /\ work_queue' = << >>
          /\ pc' = "retry_exit"
          /\ UNCHANGED <<interrupt_received, yielded, segment_results, result_order, write_count,
                         still_failed>>
     ELSE IF outcome[i] = KeyboardInterrupt
     THEN /\ future' = CancelFutures(future)
          /\ work_queue' = << >>
          /\ interrupt_received' = TRUE
          /\ pc' = "retry_exit"
          /\ UNCHANGED <<yielded, segment_results, result_order, write_count, still_failed>>
     ELSE /\ interrupt_received' = interrupt_received
          /\ yielded' = yielded \cup {i}
          /\ segment_results' = StoreResult(segment_results, i, outcome[i])
          /\ result_order' = StoreOrder(result_order, i, outcome[i])
          /\ write_count' = IF IsText(outcome[i])
                            THEN [write_count EXCEPT ![i] = @ + 1] ELSE write_count
          /\ still_failed' = IF IsText(outcome[i])
                             THEN still_failed ELSE Append(still_failed, i)
          /\ pc' = "retry_collect"
          /\ UNCHANGED <<future, work_queue>>
  /\ UNCHANGED <<cfgvars, filevars, segment_files, outcome, failed_segments,
                 retry_round, textvars, submitted_log, done_at_interrupt,
                 retry_called, flag_at_return>>

RetryLoopEnd ==
  /\ pc = "retry_collect"
  /\ \A i \in Seg : future[i] /= "none" => i \in yielded
  /\ pc' = "retry_exit"
  /\ UNCHANGED <<interrupt_received, cfgvars, filevars, segment_files,
                 segment_results, result_order, poolvars, retryvars, textvars, histvars>>

\* line 464 left out: the next round takes the same list again
NextFailed_Same(failed, still) == failed

\* line 464: failed_segments = still_failed
NextFailed(failed, still) == still

\* lines 456-469: leave the with block, keep the segments still failing,
\* stop when there is none
RetryExit ==
  /\ pc = "retry_exit"
  /\ PoolJoined
  /\ failed_segments' = NextFailed(failed_segments, still_failed)
  /\ IF still_failed = << >>
     THEN pc' = "assemble" /\ retry_round' = retry_round
     ELSE pc' = "retry_round" /\ retry_round' = retry_round + 1
  /\ still_failed' = still_failed
  /\ future' = LeftRunning(future)
  /\ outcome' = NoOutcomes
  /\ yielded' = {}
  /\ UNCHANGED <<interrupt_received, cfgvars, filevars, segment_files,
                 segment_results, result_order, work_queue, textvars, histvars>>

\* ------------------------------------------------------ specification
MainThread ==
  \/ ListFiles \/ FileLoop \/ AfterFile \/ Finish
  \/ \E n \in 0..MaxSegments : SplitAudioFile(n)
  \/ DispatchSubmit \/ DispatchLoopEnd \/ DispatchExit \/ AfterDispatch
  \/ \E i \in Seg : DispatchCollect(i)
  \/ RetryEntry \/ RetryRound \/ RetrySubmit \/ RetryLoopEnd \/ RetryExit
  \/ \E i \in Seg : RetryCollect(i)
  \/ Assemble
  \/ \E ok \in BOOLEAN : WriteTranscript(ok)
  \/ \E ok \in BOOLEAN : UpdateLedger(ok)

Workers ==
  \/ WorkerStart
  \/ \E i \in Seg, o \in Outcomes : WorkerFinish(i, o)
  \/ \E i \in Seg : WorkerHang(i)

Next == MainThread \/ Workers \/ handle_interrupt

Spec == Init /\ [][Next]_vars

OneFileSpec == OneFileInit /\ [][Next]_vars

\* a run over the whole folder, any of its files already recorded, with one
\* output format and one worker
FolderInit ==
  \E done \in SUBSET Files : \E prior \in [done -> Records] :
     /\ Constructed(prior)
     /\ format_text
     /\ ~include_timestamps
     /\ max_workers = 1

FolderSpec == FolderInit /\ [][Next]_vars

\* prepare_result_text alone, on every segment list and result map
ResultMaps(n) == UNION {[S -> AnyTexts] : S \in SUBSET (0..(n - 1))}

\* the orders in which the keys of a dict may have been inserted
InsertionOrders(S) ==
  {o \in [1..Cardinality(S) -> S] : \A j, k \in 1..Cardinality(S) : o[j] = o[k] => j = k}

AsmInit ==
  /\ pc = "assemble"
  /\ interrupt_received = FALSE
  /\ format_text \in BOOLEAN
  /\ include_timestamps \in BOOLEAN
  /\ max_workers = 1
  /\ mp3_folder = TRUE
  /\ processed_files = EmptyMap
  /\ ledger_file = EmptyMap
  /\ outputs = {}
  /\ unprocessed_files = <<1>>
  /\ file_idx = 1
  /\ processed_files_count = 0
  /\ returned = EmptyMap
  /\ ledger_writes = [f \in Files |-> 0]
  /\ \E n \in 0..MaxSegments :
        /\ segment_files = n
        /\ segment_results \in ResultMaps(n)
        /\ result_order \in InsertionOrders(DOMAIN segment_results)
  /\ future = NoFutures
  /\ outcome = NoOutcomes
  /\ work_queue = << >>
  /\ yielded = {}
  /\ failed_segments = << >>
  /\ still_failed = << >>
  /\ retry_round = 0
  /\ all_text = << >>
  /\ full_text = << >>
  /\ submitted_log = << >>
  /\ write_count = NoWrites
  /\ done_at_interrupt = {}
  /\ retry_called = FALSE
  /\ flag_at_return = FALSE

\* prepare_result_text called once more on the same arguments
AssembleAgain ==
  /\ pc = "write"
  /\ all_text' = AllText(segment_files, segment_results)
  /\ full_text' = prepare_result_text(segment_files, segment_results, format_text,
                                      include_timestamps)
  /\ pc' = "assembled_twice"
  /\ UNCHANGED <<interrupt_received, cfgvars, filevars, segment_files,
                 segment_results, result_order, poolvars, retryvars, histvars>>

AsmSpec == AsmInit /\ [][Assemble \/ AssembleAgain]_vars

\* ================================================================ claims
\* the unit prepare_result_text owes to index k - 1
ExpectedUnit(k) ==
  IF (k - 1) \in DOMAIN segment_results THEN segment_results[k - 1] ELSE UNRECOGNIZED

\* the texts of the units of a transcript
UnitTexts(units) == [k \in 1..Len(units) |-> units[k].text]

\* prepare_result_text has returned
Prepared == pc = "write"

Uncollected == {i \in Seg : future[i] /= "none" /\ i \notin yielded}

\* C2: a recognition call that never returns is recorded as a timeout and
\* does not keep process_audio_segments from returning: when every call not
\* yet collected has hung, the dispatcher still has a step to take.
C2_HungCallDoesNotBlock ==
  (/\ pc = "dispatch_collect"
   /\ Uncollected /= {}
   /\ \A i \in Uncollected : future[i] = "hung")
  => ENABLED MainThread

\* C3: once the dispatcher has seen the flag at a completion event and left
\* the loop, it returns without waiting for the calls still running.
C3_ReturnsWithoutWaiting ==
  (pc = "dispatch_exit" /\ interrupt_received) => ENABLED DispatchExit

\* C4: once the flag is set, no recognition call is submitted to a pool and
\* none is started by a worker; setting the flag aborts no running call.
C4_NoCallAfterInterrupt ==
  [][/\ interrupt_received =>
          \A i \in Seg :
            /\ future'[i] = "queued" => future[i] = "queued"
            /\ future'[i] = "running" => future[i] = "running"
     /\ (~interrupt_received /\ interrupt_received') =>
          (future' = future /\ outcome' = outcome /\ pc' = pc)]_vars

\* C5: the calls that had completed with a text when the flag was set during
\* process_audio_segments all have their entry in the ResultMap it returns,
\* and the map never has more than total_count entries.
C5_CompletedAreKept ==
  pc = "after_dispatch" =>
    /\ done_at_interrupt \subseteq DOMAIN segment_results
    /\ Cardinality(DOMAIN segment_results) <= segment_files

\* the first dispatch of the current file is over
Dispatched == pc \in {"after_dispatch", "retry_entry", "retry_round", "retry_submit",
                      "retry_collect", "retry_exit", "assemble", "write", "ledger",
                      "after_file"} /\ submitted_log /= << >>

\* C6: when the flag is set as process_audio_segments returns, the retry
\* coordinator is not run for the file (no round, no pool); the file goes on
\* to assembling with the map as returned, the transcript is written, and
\* the ledger entry of the file says interrupted.
C6_InterruptSkipsRetry ==
  (Dispatched /\ flag_at_return) =>
    /\ ~retry_called
    /\ Len(submitted_log) = 1
    /\ retry_round = 0
    /\ pc \in {"after_dispatch", "assemble", "write", "ledger", "after_file"}
    /\ pc \in {"write", "ledger", "after_file"} =>
         all_text = AllText(segment_files, segment_results)
    /\ pc = "ledger" => CurFile \in outputs
    /\ (pc = "after_file" /\ returned[CurFile]) =>
         /\ CurFile \in outputs
         /\ processed_files[CurFile].interrupted
         /\ ledger_file[CurFile].interrupted

C6_Witness ==
  /\ pc = "after_file"
  /\ flag_at_return
  /\ returned[CurFile]
  /\ segment_files = MaxSegments
  /\ DOMAIN segment_results = {0}

\* C7: when the flag is already set as retry_failed_segments is called, the
\* call submits nothing, runs no round and returns the map it was given.
C7_RetryNoOpAfterInterrupt ==
  [][(pc = "retry_entry" /\ interrupt_received /\ pc' /= pc) =>
       /\ pc' = "assemble"
       /\ segment_results' = segment_results
       /\ submitted_log' = submitted_log
       /\ future' = future /\ work_queue' = work_queue
       /\ retry_round' = 0 /\ failed_segments' = << >>]_vars

C7_Witness ==
  /\ pc = "retry_entry"
  /\ interrupt_received
  /\ segment_files = MaxSegments
  /\ DOMAIN segment_results = {0}

\* number of retry rounds run for the current file
RoundsRun == IF submitted_log = << >> THEN 0 ELSE Len(submitted_log) - 1

\* the main thread is inside retry_failed_segments
InRetry == pc \in {"retry_entry", "retry_round", "retry_submit", "retry_collect",
                   "retry_exit"}

\* C8: retry_failed_segments runs at most max_retries rounds, a round is
\* only started with a segment pending, the loop is left as soon as no
\* segment is pending, and while every call returns (with a text or a
\* failure) the coordinator is never stuck before it returns.
C8_RoundsBounded ==
  /\ RoundsRun <= max_retries
  /\ (InRetry /\ \A i \in Seg : future[i] /= "hung") => ENABLED (MainThread \/ Workers)
  /\ \A k \in 2..Len(submitted_log) : submitted_log[k] /= {}
  /\ pc \in {"retry_submit", "retry_collect", "retry_exit"} =>
       /\ retry_round \in 1..max_retries
       /\ failed_segments /= << >>
  /\ pc \in {"retry_submit", "retry_collect"} =>
       RoundsRun = IF pc = "retry_submit" THEN retry_round - 1 ELSE retry_round
  /\ pc = "retry_round" => (failed_segments /= << >> /\ retry_round <= max_retries + 1)
  /\ (pc = "retry_round" /\ retry_round > max_retries) => RoundsRun = max_retries

C8_Witness ==
  /\ pc = "assemble"
  /\ RoundsRun = max_retries
  /\ failed_segments /= << >>
  /\ ~interrupt_received

\* C9: a segment with an entry in the ResultMap is never submitted again,
\* and each round submits a subset of what the round before submitted.
C9_ResolvedNeverResubmitted ==
  /\ \A i \in Uncollected : i \notin DOMAIN segment_results
  /\ \A k \in 1..(Len(submitted_log) - 1) : submitted_log[k + 1] \subseteq submitted_log[k]
  /\ pc = "retry_submit" => Range(failed_segments) \cap DOMAIN segment_results = {}

C9_Witness ==
  /\ Len(submitted_log) = 3
  /\ submitted_log[2] = Seg
  /\ submitted_log[3] = {1}
  /\ 0 \in DOMAIN segment_results

\* C10: over the first dispatch and the retry rounds of a file, each key of
\* the ResultMap is written at most once, and no entry is removed.
C10_WrittenOnce ==
  \A i \in Seg :
    /\ write_count[i] <= 1
    /\ i \in DOMAIN segment_results <=> write_count[i] = 1

C10_Witness ==
  /\ pc = "assemble"
  /\ Len(submitted_log) = 2
  /\ submitted_log[2] = {1}
  /\ DOMAIN segment_results = Seg
  /\ max_workers = MaxWorkers

\* the segments of the current file without an entry in the ResultMap
Pending == (0..(segment_files - 1)) \ DOMAIN segment_results

C12_ExceptionIsSegmentFailure ==
  /\ \A i \in yielded :
       /\ outcome[i] = Raised =>
            /\ i \notin DOMAIN segment_results
            /\ pc \in {"retry_collect", "retry_exit"} => i \in Range(still_failed)
       /\ outcome[i] \in Texts =>
            /\ i \in DOMAIN segment_results
            /\ segment_results[i] = outcome[i]
  /\ (pc \in {"dispatch_exit", "retry_exit"} /\ ~interrupt_received) => Uncollected = {}

C12_Witness ==
  /\ pc = "dispatch_exit"
  /\ ~interrupt_received
  /\ yielded = Seg
  /\ outcome[0] = Raised
  /\ outcome[1] \in Texts
  /\ DOMAIN segment_results = {1}

\* C13: at every moment of a dispatch or of a retry round, at most
\* max_workers recognition calls are executing (a call that never returns
\* keeps its thread), however many segments were submitted.
C13_AtMostMaxWorkersRunning ==
  /\ Cardinality(Running(future)) <= max_workers
  /\ Cardinality(Running(future)) + Len(work_queue) <= segment_files

C13_Witness ==
  /\ pc = "retry_collect"
  /\ max_workers = 1
  /\ Cardinality(Running(future)) = 1
  /\ work_queue /= << >>

\* C14: the interrupt flag is false after construction and, once set, is
\* never reset; it is set by the signal handler, which changes nothing else,
\* or by a collecting loop that catches a KeyboardInterrupt.
C14_FlagMonotonic ==
  /\ ~interrupt_received
  /\ [][/\ interrupt_received => interrupt_received'
        /\ (~interrupt_received /\ interrupt_received') =>
             \/ pc' = pc /\ future' = future /\ segment_results' = segment_results
             \/ /\ pc \in {"dispatch_collect", "retry_collect"}
                /\ pc' \in {"dispatch_exit", "retry_exit"}
                /\ \E i \in Completed : outcome[i] = KeyboardInterrupt]_vars

C14_Witness ==
  /\ pc = "done"
  /\ interrupt_received
  /\ 1 \in DOMAIN returned
  /\ returned[1]

\* the files of the list the file loop has not reached
NotReached == {unprocessed_files[k] : k \in (file_idx + 1)..Len(unprocessed_files)}

\* no trace of process_single_file on file f
Untouched(f) ==
  /\ f \notin DOMAIN returned
  /\ f \notin DOMAIN processed_files
  /\ f \notin DOMAIN ledger_file
  /\ f \notin outputs

\* C15: once the flag is set the file loop starts no file and moves to no
\* other file; it is left only at its head or after the current file has
\* returned, and the files it has not reached are unstarted and absent from
\* the ledger.
C15_NoFileStartedAfterInterrupt ==
  /\ [](\A f \in NotReached : Untouched(f))
  /\ []((interrupt_received /\ pc \in {"finish", "done"}) =>
          (file_idx <= Len(unprocessed_files) =>
             (CurFile \in DOMAIN returned \/ Untouched(CurFile))))
  /\ [][interrupt_received =>
          /\ file_idx' = file_idx
          /\ ~(pc = "file_loop" /\ pc' = "split")
          /\ (pc /= "finish" /\ pc' = "finish") =>
               \/ pc = "file_loop"
               \/ pc = "after_file" /\ CurFile \in DOMAIN returned]_vars

C15_Witness ==
  /\ pc = "done"
  /\ interrupt_received
  /\ Len(unprocessed_files) = MaxFiles
  /\ file_idx = 1
  /\ 1 \in DOMAIN ledger_file
  /\ ledger_file[1].interrupted
  /\ Untouched(2)

\* C16: when split_audio_file returns no segment, process_single_file
\* returns False straight away: no recognition call is submitted, no
\* transcript is written and the file gets no ledger entry, in memory or
\* saved.
C16_NoSegmentsFails ==
  /\ (pc = "after_file" /\ segment_files = 0) =>
       /\ ~returned[CurFile]
       /\ submitted_log = << >>
       /\ future = NoFutures
       /\ CurFile \notin outputs
       /\ CurFile \notin DOMAIN processed_files
       /\ CurFile \notin DOMAIN ledger_file
  /\ pc \in {"dispatch_submit", "dispatch_collect", "dispatch_exit", "after_dispatch",
             "retry_entry", "retry_round", "retry_submit", "retry_collect",
             "retry_exit", "assemble", "write", "ledger"} => segment_files > 0

C16_Witness ==
  /\ pc = "after_file"
  /\ segment_files = 0
  /\ ~returned[CurFile]

\* C17 (as stated): every file that reached a terminal state, Done,
\* Interrupted or Failed, has had the ledger written exactly once.
C17_LedgerWrittenOncePerFile ==
  \A f \in DOMAIN returned : ledger_writes[f] = 1

\* C17 (amended): the ledger is written at most once per file: exactly once,
\* after its transcript was written, for a file that ends Done or
\* Interrupted, and never for a file that ends without a transcript (no
\* segments, or the transcript could not be written) or that was not run.
C17_LedgerWrittenOnceWithTranscript ==
  \A f \in Files :
    /\ ledger_writes[f] <= 1
    /\ f \notin DOMAIN returned => ledger_writes[f] = 0
    /\ f \in DOMAIN returned =>
         /\ ledger_writes[f] = 1 <=> f \in outputs
         /\ returned[f] => (ledger_writes[f] = 1 /\ f \in DOMAIN ledger_file)
         /\ ledger_writes[f] = 1 => f \in DOMAIN processed_files

C17_Witness ==
  /\ pc = "done"
  /\ DOMAIN returned = Files
  /\ returned[1]
  /\ ledger_writes[1] = 1
  /\ ~returned[2]
  /\ ledger_writes[2] = 0

\* C18: a file with segments of which some or all are still unresolved when
\* the retries are over is a success like any other: it is assembled, and it
\* returns True with its transcript written and its ledger entry saved
\* unless the writing or the saving itself raised.
C18_PartialSuccessIsDone ==
  /\ (pc = "retry_round" /\ retry_round > max_retries) => ENABLED RetryRound
  /\ (pc \in {"write", "ledger", "after_file"} /\ segment_files > 0) =>
       Len(all_text) = segment_files
  /\ (pc = "after_file" /\ segment_files > 0 /\ Pending /= {}) =>
       /\ returned[CurFile] <=> (CurFile \in outputs /\ CurFile \in DOMAIN ledger_file)
       /\ returned[CurFile] =>
            /\ ledger_file[CurFile] = processed_files[CurFile]
            /\ ledger_file[CurFile].interrupted => interrupt_received

C18_Witness ==
  /\ pc = "after_file"
  /\ ~interrupt_received
  /\ segment_files = MaxSegments
  /\ Pending = Seg
  /\ RoundsRun = max_retries
  /\ returned[CurFile]

\* C19: process_single_file is never run on a file that is a key of the
\* ledger, the list of files to run has no file twice, and a run that ends
\* without an interrupt has run every file of the folder that was not in
\* the ledger.
C19_EveryUnrecordedFileRunOnce ==
  /\ pc = "split" => CurFile \notin DOMAIN processed_files
  /\ \A j, k \in 1..Len(unprocessed_files) :
       unprocessed_files[j] = unprocessed_files[k] => j = k
  /\ (pc = "done" /\ ~interrupt_received) =>
       \A f \in Files : f \in DOMAIN returned \/ f \in DOMAIN processed_files

\* the main thread is inside the with block of a pool
InPool == pc \in {"dispatch_collect", "dispatch_exit", "retry_collect", "retry_exit"}

\* C20: recognition calls are in flight only while the main thread is
\* inside the pool of the current file: when a file submits its first call,
\* and between two files, no call of an earlier pool or file is running or
\* queued, after an interrupt or a cancellation as well.
C20_OneFileAtATime ==
  /\ ~InPool => (future = NoFutures /\ work_queue = << >>)
  /\ pc = "dispatch_submit" => Running(future) = {}
  /\ (file_idx <= Len(unprocessed_files) /\ CurFile \in DOMAIN returned) =>
       pc \in {"after_file", "finish", "done"}

C20_Witness ==
  /\ file_idx = 2
  /\ pc = "dispatch_collect"
  /\ unprocessed_files[1] \in outputs
  /\ future[0] = "running"
  /\ future[1] = "queued"

\* C21: prepare_result_text goes through the indices 0..total_count-1 in
\* ascending order: the k-th unit it builds is the unit of index k-1, and
\* the units it keeps when it joins them itself are in the same order,
\* whatever the order in which the keys were inserted into the ResultMap.
C21_AscendingIndexOrder ==
  Prepared =>
    /\ all_text = [k \in 1..segment_files |-> ExpectedUnit(k)]
    /\ ~format_text =>
         UnitTexts(full_text) =
           SelectSeq([k \in 1..segment_files |-> ExpectedUnit(k)],
                     LAMBDA t : t /= UNRECOGNIZED)

C21_Witness ==
  /\ Prepared
  /\ ~format_text
  /\ segment_files = MaxSegments
  /\ result_order = <<1, 0>>
  /\ segment_results[0] = "text"
  /\ segment_results[1] = "more text"
  /\ UnitTexts(full_text) = <<"text", "more text">>

C23_FailedIsPending ==
  (\/ pc \in {"retry_round", "retry_submit"}
   \/ pc = "assemble" /\ RoundsRun >= 1)
  => Range(failed_segments) = Pending

\* C24: without an interrupt the ResultMap process_audio_segments returns
\* depends on the outcomes of the calls only, not on the order in which they
\* completed: its keys are the indices whose call returned a non-empty
\* text, each mapped to that text, in whatever order they were inserted.
C24_ResultMapIndependentOfOrder ==
  (pc = "dispatch_exit" /\ ~interrupt_received) =>
    /\ DOMAIN segment_results = {i \in 0..(segment_files - 1) : outcome[i] \in Texts}
    /\ \A i \in DOMAIN segment_results : segment_results[i] = outcome[i]
    /\ Range(result_order) = DOMAIN segment_results
    /\ Len(result_order) = Cardinality(DOMAIN segment_results)

C24_Witness ==
  /\ pc = "dispatch_exit"
  /\ ~interrupt_received
  /\ segment_files = MaxSegments
  /\ result_order = <<1, 0>>
  /\ DOMAIN segment_results = Seg

\* the interval of index k - 1, as a unit of the transcript carries it
NominalInterval(k) == <<(k - 1) * SegmentSeconds, k * SegmentSeconds>>

C26_EmptyTextIsFailure ==
  /\ \A i \in DOMAIN segment_results :
       /\ i \in 0..(segment_files - 1)
       /\ segment_results[i] /= NoText
       /\ segment_results[i] \in Texts
  /\ \A i \in yielded :
       outcome[i] = NoText =>
         /\ i \in Pending
         /\ pc \in {"retry_collect", "retry_exit"} => i \in Range(still_failed)
  /\ pc = "retry_round" => Range(failed_segments) \subseteq Pending

C26_Witness ==
  /\ pc = "retry_exit"
  /\ retry_round = 1
  /\ yielded = Seg
  /\ outcome[0] \in Texts
  /\ outcome[1] = NoText
  /\ still_failed = <<1>>
  /\ DOMAIN segment_results = {0}

\* C27: a file for which process_single_file returned False (no segments,
\* or an exception while writing the transcript or saving the ledger) has
\* no entry in the ledger, in memory or as saved, and the file loop goes on
\* with the next file: without an interrupt it ends only when every file of
\* its list was run.
C27_FailedFileNotRecorded ==
  /\ \A f \in DOMAIN returned :
       ~returned[f] => (f \notin DOMAIN processed_files /\ f \notin DOMAIN ledger_file)
  /\ (pc = "finish" /\ ~interrupt_received) => file_idx > Len(unprocessed_files)

\* C28: a file interrupted in its processing is recorded with interrupted =
\* true, and a run that finds such an entry in the ledger treats the file
\* as any recorded file: it is not in the list of files to run, it is never
\* run, no call is made for it, and its entry and transcript are left as
\* they are.
C28_InterruptedFileIsSkipped ==
  /\ (pc = "after_file" /\ returned[CurFile] /\ flag_at_return) =>
       (processed_files[CurFile].interrupted /\ ledger_file[CurFile].interrupted)
  /\ (pc = "file_loop" /\ returned = EmptyMap) =>
       Range(unprocessed_files) = Files \ DOMAIN processed_files
  /\ (pc /= "start" /\ mp3_folder) =>
       \A f \in Files \ Range(unprocessed_files) :
         /\ f \in DOMAIN processed_files
         /\ ledger_file[f] = processed_files[f]
         /\ f \notin DOMAIN returned
         /\ f \notin outputs
         /\ ledger_writes[f] = 0

C28_Witness ==
  /\ pc = "done"
  /\ mp3_folder
  /\ 1 \in DOMAIN ledger_file
  /\ ledger_file[1].interrupted
  /\ 1 \notin Range(unprocessed_files)
  /\ DOMAIN returned = {2}
  /\ returned[2]

====
